---- MODULE Spec2Model ----
(***************************************************************************)
(* Model of the volume-effect conformance test                             *)
(* audio/aidl/vts/VtsHalVolumeTargetTest.cpp: the VolumeParamTest fixture  *)
(* (SetUp, the test bodies, SetAndGetParameters, TearDown), the range      *)
(* predicates isTagInRange / isLevelInRange, and the effect under test as  *)
(* an unconstrained collaborator that answers every binder call with any   *)
(* status and keeps a parameter store.                                     *)
(***************************************************************************)
EXTENDS Integers, Sequences, FiniteSets

(***************************************************************************)
(* Bounds of the model.                                                    *)
(***************************************************************************)
\* longest queue of values (mTags) a test body builds
MaxTags == 2
\* how far beyond the global band the levels of the range check reach
Margin == 2

(***************************************************************************)
(* Program constants.                                                      *)
(***************************************************************************)
\* Volume::MIN_LEVEL_DB and Volume::MAX_LEVEL_DB, declared in Volume.aidl; the
\* band is the one the specification's scenarios name.
MIN_LEVEL_DB == -100
MAX_LEVEL_DB == 0

\* binder exception codes, kept symbolic
EX_NONE == "EX_NONE"
EX_ILLEGAL_ARGUMENT == "EX_ILLEGAL_ARGUMENT"
EX_TRANSACTION_FAILED == "EX_TRANSACTION_FAILED"
Statuses == {EX_NONE, EX_ILLEGAL_ARGUMENT, EX_TRANSACTION_FAILED}
\* no status yet (the call was not made)
NoStatus == "none"

\* kLevelValues: the levels the suite is instantiated with
kLevelValues ==
    {MIN_LEVEL_DB - 1, MIN_LEVEL_DB, -100, MAX_LEVEL_DB, MAX_LEVEL_DB + 1}

\* testing::Bool()
Bools == {FALSE, TRUE}

(***************************************************************************)
(* Data: Volume is a tagged union; the member that is not active is kept   *)
(* at its zero value so that two Volumes compare member by member.         *)
(***************************************************************************)
LevelVolume(level) == [tag |-> "levelDb", levelDb |-> level, mute |-> FALSE]
MuteVolume(mute) == [tag |-> "mute", levelDb |-> 0, mute |-> mute]
VendorVolume == [tag |-> "vendor", levelDb |-> 0, mute |-> FALSE]

\* a Descriptor, reduced to desc.capability.get<Capability::volume>()
MakeDescriptor(maxLevel) == [capability |-> [maxLevel |-> maxLevel]]

\* a default-constructed Parameter (no Specific in it)
DefaultParameter == [tag |-> "common", volume |-> VendorVolume]
\* expectParam: Parameter::specific holding Specific::volume holding vol
SpecificParameter(vol) == [tag |-> "specific", volume |-> vol]

(***************************************************************************)
(* The range predicates.                                                   *)
(***************************************************************************)
\* isLevelInRange without the global upper bound: the capability alone decides
\* above MAX_LEVEL_DB
isLevelInRange_NoGlobalMax(cap, level) ==
    /\ level >= MIN_LEVEL_DB
    /\ level <= cap.maxLevel

isLevelInRange(cap, level) ==
    /\ level >= MIN_LEVEL_DB
    /\ level <= MAX_LEVEL_DB
    /\ level <= cap.maxLevel

\* isTagInRange whose default branch returns true
isTagInRange_DefaultTrue(tag, vol, desc) ==
    CASE tag = "levelDb" -> isLevelInRange(desc.capability, vol.levelDb)
      [] tag = "mute" -> TRUE
      [] OTHER -> TRUE

isTagInRange(tag, vol, desc) ==
    CASE tag = "levelDb" -> isLevelInRange(desc.capability, vol.levelDb)
      [] tag = "mute" -> TRUE
      [] OTHER -> FALSE

(***************************************************************************)
(* State.                                                                  *)
(***************************************************************************)
VARIABLES
    pc,           \* position of the test run
    test,         \* the test body that runs on the fixture
    mParamLevel,  \* fixture member: the level parameter of the instance
    mParamMute,   \* fixture member: the mute parameter of the instance
    mEffect,      \* fixture member: the effect handle, "null" until created
    mTags,        \* fixture member: the queued (tag, Volume) pairs
    idx,          \* SetAndGetParameters: position of the loop in mTags
    desc,         \* SetAndGetParameters local: the descriptor fetched
    valid,        \* SetAndGetParameters local
    expected,     \* SetAndGetParameters local
    expectParam,  \* SetAndGetParameters local
    getParam,     \* SetAndGetParameters local
    setStatus,    \* status returned by this iteration's setParameter
    getStatus,    \* status returned by this iteration's getParameter
    failed,       \* positions of mTags with a failed EXPECT_ or ASSERT_
    fatal,        \* the run has a fatal failure
    store,        \* the effect: its stored level and mute
    storeBefore,  \* the effect's store before this iteration's setParameter
    reported,     \* the effect: the maxLevel of its latest descriptor
    calls,        \* every call issued to the factory and the effect, in order
    badAt,        \* position in calls of the first getDescriptor, setParameter
                  \* or getParameter answered outside EX_NONE and
                  \* EX_ILLEGAL_ARGUMENT, 0 when there is none
    lifecycle,    \* status returned by each of create, open, close, destroy
    band          \* range check alone: the levels found in range

vars == <<pc, test, mParamLevel, mParamMute, mEffect, mTags, idx, desc, valid,
          expected, expectParam, getParam, setStatus, getStatus, failed, fatal,
          store, storeBefore, reported, calls, badAt, lifecycle, band>>

fixture == <<test, mParamLevel, mParamMute>>
locals == <<desc, valid, expected, expectParam, getParam, setStatus, getStatus,
            storeBefore>>

\* maxLevel values the effect's descriptor may report
CapLevels == {MIN_LEVEL_DB, MAX_LEVEL_DB}

\* the store of an effect opened with getDefaultParamSpecific()
getDefaultParamSpecific == LevelVolume(MIN_LEVEL_DB)
ClosedStore == [levelDb |-> 0, mute |-> FALSE]
OpenedStore == [levelDb |-> getDefaultParamSpecific.levelDb, mute |-> FALSE]

NoLifecycle == [createEffect |-> NoStatus, open |-> NoStatus,
                close |-> NoStatus, destroyEffect |-> NoStatus]

Call(op, i) == [op |-> op, idx |-> i]
ValueOps == {"getDescriptor", "setParameter", "getParameter"}

\* the effect applies a Volume to its store
ApplyVolume(st, vol) ==
    CASE vol.tag = "levelDb" -> [st EXCEPT !.levelDb = vol.levelDb]
      [] vol.tag = "mute" -> [st EXCEPT !.mute = vol.mute]
      [] OTHER -> st

\* the effect answers a getParameter for a Volume tag from its store
StoredParameter(st, tag) ==
    SpecificParameter(IF tag = "levelDb" THEN LevelVolume(st.levelDb)
                                         ELSE MuteVolume(st.mute))

\* EffectHelper::close and EffectHelper::destroy: a null handle is never called
HandleUsable(effect) == effect # "null"

\* ASSERT_STATUS / EXPECT_STATUS: the check of a returned status
StatusMatches(want, got) == got = want

\* first answer outside the success / illegal-argument vocabulary
NoteBad(st) ==
    IF badAt = 0 /\ st \notin {EX_NONE, EX_ILLEGAL_ARGUMENT}
    THEN Len(calls) + 1 ELSE badAt

InitCommon ==
    /\ pc = "SetUp"
    /\ mEffect = "null"
    /\ mTags = <<>>
    /\ idx = 0
    /\ desc = MakeDescriptor(0)
    /\ valid = FALSE
    /\ expected = NoStatus
    /\ expectParam = DefaultParameter
    /\ getParam = DefaultParameter
    /\ setStatus = NoStatus
    /\ getStatus = NoStatus
    /\ failed = {}
    /\ fatal = FALSE
    /\ store = ClosedStore
    /\ storeBefore = ClosedStore
    /\ reported = 0
    /\ calls = <<>>
    /\ badAt = 0
    /\ lifecycle = NoLifecycle
    /\ band = {}

(***************************************************************************)
(* SetUp and TearDown.                                                     *)
(***************************************************************************)
\* SetUp, up to create(): a fatal failure ends SetUp, the body is skipped and
\* TearDown still runs. mFactory is the factory of an enumerated
\* (factory, descriptor) pair and is not null.
SetUpCreate ==
    /\ pc = "SetUp"
    /\ \E st \in Statuses :
        /\ calls' = Append(calls, Call("createEffect", 0))
        /\ lifecycle' = [lifecycle EXCEPT !.createEffect = st]
        /\ IF StatusMatches(EX_NONE, st)
           THEN /\ mEffect' = "effect"
                /\ pc' = "SetUpOpen"
                /\ fatal' = fatal
           ELSE /\ mEffect' = mEffect
                /\ pc' = "TearDown"
                /\ fatal' = TRUE
    /\ UNCHANGED <<fixture, mTags, idx, locals, failed, store, reported, badAt,
                   band>>

\* SetUp, from getDefaultParamSpecific() to open()
SetUpOpen ==
    /\ pc = "SetUpOpen"
    /\ \E st \in Statuses :
        /\ calls' = Append(calls, Call("open", 0))
        /\ lifecycle' = [lifecycle EXCEPT !.open = st]
        /\ IF StatusMatches(EX_NONE, st)
           THEN /\ store' = OpenedStore
                /\ pc' = "body"
                /\ fatal' = fatal
           ELSE /\ store' = store
                /\ pc' = "TearDown"
                /\ fatal' = TRUE
    /\ UNCHANGED <<fixture, mEffect, mTags, idx, locals, failed, reported,
                   badAt, band>>

\* TearDown that goes on to destroy() whatever close() reported
TearDownClose_NoSkip ==
    /\ pc = "TearDown"
    /\ IF ~HandleUsable(mEffect)
       THEN /\ calls' = calls
            /\ lifecycle' = lifecycle
            /\ fatal' = TRUE
            /\ pc' = "done"
       ELSE \E st \in Statuses :
            /\ calls' = Append(calls, Call("close", 0))
            /\ lifecycle' = [lifecycle EXCEPT !.close = st]
            /\ fatal' = (fatal \/ ~StatusMatches(EX_NONE, st))
            /\ pc' = "TearDownDestroy"
    /\ UNCHANGED <<fixture, mEffect, mTags, idx, locals, failed, store,
                   reported, badAt, band>>

\* TearDown, close(mEffect): close() skips a null handle, and destroy() then
\* fails on it before any call
TearDownClose ==
    /\ pc = "TearDown"
    /\ IF ~HandleUsable(mEffect)
       THEN /\ calls' = calls
            /\ lifecycle' = lifecycle
            /\ fatal' = TRUE
            /\ pc' = "done"
       ELSE \E st \in Statuses :
            /\ calls' = Append(calls, Call("close", 0))
            /\ lifecycle' = [lifecycle EXCEPT !.close = st]
            /\ IF StatusMatches(EX_NONE, st)
               THEN /\ pc' = "TearDownDestroy"
                    /\ fatal' = fatal
               ELSE /\ pc' = "done"
                    /\ fatal' = TRUE
    /\ UNCHANGED <<fixture, mEffect, mTags, idx, locals, failed, store,
                   reported, badAt, band>>

\* TearDown, destroy(mFactory, mEffect)
TearDownDestroy ==
    /\ pc = "TearDownDestroy"
    /\ \E st \in Statuses :
        /\ calls' = Append(calls, Call("destroyEffect", 0))
        /\ lifecycle' = [lifecycle EXCEPT !.destroyEffect = st]
        /\ fatal' = (fatal \/ ~StatusMatches(EX_NONE, st))
    /\ pc' = "done"
    /\ UNCHANGED <<fixture, mEffect, mTags, idx, locals, failed, store,
                   reported, badAt, band>>

(***************************************************************************)
(* Queueing values.                                                        *)
(***************************************************************************)
addLevelParam(level) ==
    mTags' = Append(mTags, <<"levelDb", LevelVolume(level)>>)

addMuteParam(mute) ==
    mTags' = Append(mTags, <<"mute", MuteVolume(mute)>>)

\* entering SetAndGetParameters: the loop starts at the first pair
EnterSetAndGetParameters ==
    /\ idx' = 1
    /\ pc' = "loop"

\* TEST_P(VolumeParamTest, SetAndGetLevel)
SetAndGetLevel ==
    /\ pc = "body"
    /\ test = "SetAndGetLevel"
    /\ addLevelParam(mParamLevel)
    /\ EnterSetAndGetParameters
    /\ UNCHANGED <<fixture, mEffect, locals, failed, fatal, store, reported,
                   calls, badAt, band,
                   lifecycle>>

\* TEST_P(VolumeParamTest, SetAndGetMute)
SetAndGetMute ==
    /\ pc = "body"
    /\ test = "SetAndGetMute"
    /\ addMuteParam(mParamMute)
    /\ EnterSetAndGetParameters
    /\ UNCHANGED <<fixture, mEffect, locals, failed, fatal, store, reported,
                   calls, badAt, band,
                   lifecycle>>

\* a body that queues several values: one more level
QueueLevel ==
    /\ pc = "body"
    /\ test = "queue"
    /\ Len(mTags) < MaxTags
    /\ \E level \in kLevelValues : addLevelParam(level)
    /\ UNCHANGED <<pc, fixture, mEffect, idx, locals, failed, fatal, store,
                   reported, calls, badAt, band,
                   lifecycle>>

\* a body that queues several values: one more mute
QueueMute ==
    /\ pc = "body"
    /\ test = "queue"
    /\ Len(mTags) < MaxTags
    /\ \E mute \in Bools : addMuteParam(mute)
    /\ UNCHANGED <<pc, fixture, mEffect, idx, locals, failed, fatal, store,
                   reported, calls, badAt, band,
                   lifecycle>>

\* a body that queues several values: the call of SetAndGetParameters
QueueRun ==
    /\ pc = "body"
    /\ test = "queue"
    /\ EnterSetAndGetParameters
    /\ UNCHANGED <<fixture, mEffect, mTags, locals, failed, fatal, store,
                   reported, calls, badAt, band,
                   lifecycle>>

(***************************************************************************)
(* SetAndGetParameters: one action for each call the loop makes.           *)
(***************************************************************************)
\* expected with the two branches exchanged
ExpectedStatus_Swapped(v) == IF v THEN EX_ILLEGAL_ARGUMENT ELSE EX_NONE

\* const binder_exception_t expected = valid ? EX_NONE : EX_ILLEGAL_ARGUMENT
ExpectedStatus(v) == IF v THEN EX_NONE ELSE EX_ILLEGAL_ARGUMENT

\* the get guarded by the set's own success as well
GetCondition_SetSuccess(exp, setSt) == exp = EX_NONE /\ setSt = EX_NONE

\* the get issued for every value
GetCondition_Always(exp, setSt) == TRUE

\* if (expected == EX_NONE): the condition of the get
GetCondition(exp, setSt) == exp = EX_NONE

\* EXPECT_EQ(expectParam, getParam)
ParamEqual(want, got) == want = got

\* getDescriptor under EXPECT_STATUS: a failed call is recorded and the
\* iteration goes on with the default-constructed Descriptor
LoopGetDescriptor_Expect ==
    /\ pc = "loop"
    /\ idx <= Len(mTags)
    /\ \E st \in Statuses, maxLevel \in CapLevels :
        /\ calls' = Append(calls, Call("getDescriptor", idx))
        /\ badAt' = NoteBad(st)
        /\ reported' = IF st = EX_NONE THEN maxLevel ELSE reported
        /\ desc' = IF st = EX_NONE THEN MakeDescriptor(maxLevel)
                                   ELSE MakeDescriptor(0)
        /\ failed' = IF StatusMatches(EX_NONE, st) THEN failed
                                                   ELSE failed \cup {idx}
        /\ valid' = isTagInRange(mTags[idx][1], mTags[idx][2], desc')
        /\ expected' = ExpectedStatus(valid')
    /\ pc' = "set"
    /\ expectParam' = DefaultParameter
    /\ getParam' = DefaultParameter
    /\ setStatus' = NoStatus
    /\ getStatus' = NoStatus
    /\ storeBefore' = store
    /\ UNCHANGED <<fixture, mEffect, mTags, idx, store, fatal, band, lifecycle>>

\* the descriptor fetched for the first value and kept for the later ones
LoopGetDescriptor_Cached ==
    /\ pc = "loop"
    /\ idx <= Len(mTags)
    /\ \E st \in Statuses, maxLevel \in CapLevels :
        /\ calls' = Append(calls, Call("getDescriptor", idx))
        /\ badAt' = NoteBad(st)
        /\ IF StatusMatches(EX_NONE, st)
           THEN /\ reported' = maxLevel
                /\ desc' = IF idx = 1 THEN MakeDescriptor(maxLevel) ELSE desc
                /\ valid' = isTagInRange(mTags[idx][1], mTags[idx][2], desc')
                /\ expected' = ExpectedStatus(valid')
                /\ pc' = "set"
                /\ UNCHANGED <<failed, fatal>>
           ELSE /\ reported' = reported
                /\ desc' = desc
                /\ valid' = FALSE
                /\ expected' = NoStatus
                /\ failed' = failed \cup {idx}
                /\ fatal' = TRUE
                /\ pc' = "TearDown"
    /\ expectParam' = DefaultParameter
    /\ getParam' = DefaultParameter
    /\ setStatus' = NoStatus
    /\ getStatus' = NoStatus
    /\ storeBefore' = store
    /\ UNCHANGED <<fixture, mEffect, mTags, idx, store, band, lifecycle>>

\* "validate parameter": a fresh Descriptor, getDescriptor under ASSERT_STATUS,
\* then valid and expected; a status that is not EX_NONE returns from
\* SetAndGetParameters with a fatal failure
LoopGetDescriptor ==
    /\ pc = "loop"
    /\ idx <= Len(mTags)
    /\ \E st \in Statuses, maxLevel \in CapLevels :
        /\ calls' = Append(calls, Call("getDescriptor", idx))
        /\ badAt' = NoteBad(st)
        /\ IF StatusMatches(EX_NONE, st)
           THEN /\ reported' = maxLevel
                /\ desc' = MakeDescriptor(maxLevel)
                /\ valid' = isTagInRange(mTags[idx][1], mTags[idx][2], desc')
                /\ expected' = ExpectedStatus(valid')
                /\ pc' = "set"
                /\ UNCHANGED <<failed, fatal>>
           ELSE /\ reported' = reported
                /\ desc' = MakeDescriptor(0)
                /\ valid' = FALSE
                /\ expected' = NoStatus
                /\ failed' = failed \cup {idx}
                /\ fatal' = TRUE
                /\ pc' = "TearDown"
    /\ expectParam' = DefaultParameter
    /\ getParam' = DefaultParameter
    /\ setStatus' = NoStatus
    /\ getStatus' = NoStatus
    /\ storeBefore' = store
    /\ UNCHANGED <<fixture, mEffect, mTags, idx, store, band,
                   lifecycle>>

\* setParameter under ASSERT_STATUS: a status that is not the expected one
\* returns from SetAndGetParameters
LoopSetParameter_Assert ==
    /\ pc = "set"
    /\ \E st \in Statuses, applied \in Bools :
        /\ calls' = Append(calls, Call("setParameter", idx))
        /\ badAt' = NoteBad(st)
        /\ setStatus' = st
        /\ store' = IF applied THEN ApplyVolume(store, mTags[idx][2]) ELSE store
        /\ IF StatusMatches(expected, st)
           THEN /\ UNCHANGED <<failed, fatal>>
                /\ IF GetCondition(expected, st)
                   THEN /\ pc' = "get"
                        /\ idx' = idx
                   ELSE /\ pc' = "loop"
                        /\ idx' = idx + 1
           ELSE /\ failed' = failed \cup {idx}
                /\ fatal' = TRUE
                /\ pc' = "TearDown"
                /\ idx' = idx
    /\ expectParam' = SpecificParameter(mTags[idx][2])
    /\ storeBefore' = store
    /\ UNCHANGED <<fixture, mEffect, mTags, desc, valid, expected, getParam,
                   getStatus, reported, band, lifecycle>>

\* "set parameter": expectParam is built from vol and set under EXPECT_STATUS,
\* which records a failure and goes on; the effect answers with any status
\* and applies the value or not
LoopSetParameter ==
    /\ pc = "set"
    /\ \E st \in Statuses, applied \in Bools :
        /\ calls' = Append(calls, Call("setParameter", idx))
        /\ badAt' = NoteBad(st)
        /\ setStatus' = st
        /\ store' = IF applied THEN ApplyVolume(store, mTags[idx][2]) ELSE store
        /\ failed' = IF StatusMatches(expected, st) THEN failed
                                                    ELSE failed \cup {idx}
        /\ IF GetCondition(expected, st)
           THEN /\ pc' = "get"
                /\ idx' = idx
           ELSE /\ pc' = "loop"
                /\ idx' = idx + 1
    /\ expectParam' = SpecificParameter(mTags[idx][2])
    /\ storeBefore' = store
    /\ UNCHANGED <<fixture, mEffect, mTags, desc, valid, expected, getParam,
                   getStatus, fatal, reported, band,
                   lifecycle>>

\* the get of the value's tag under EXPECT_STATUS(EX_NONE, ...) and the
\* EXPECT_EQ of the two Parameters; getParam stays default-constructed when
\* the call fails
LoopGetParameter ==
    /\ pc = "get"
    /\ \E st \in Statuses :
        /\ calls' = Append(calls, Call("getParameter", idx))
        /\ badAt' = NoteBad(st)
        /\ getStatus' = st
        /\ getParam' = IF st = EX_NONE
                       THEN StoredParameter(store, mTags[idx][1])
                       ELSE DefaultParameter
        /\ failed' = IF /\ StatusMatches(EX_NONE, st)
                        /\ ParamEqual(expectParam, getParam')
                     THEN failed ELSE failed \cup {idx}
    /\ pc' = "loop"
    /\ idx' = idx + 1
    /\ UNCHANGED <<fixture, mEffect, mTags, desc, valid, expected, expectParam,
                   setStatus, fatal, store, storeBefore, reported, band,
                   lifecycle>>

\* the loop has gone through mTags; the body returns
LoopEnd ==
    /\ pc = "loop"
    /\ idx > Len(mTags)
    /\ pc' = "TearDown"
    /\ UNCHANGED <<fixture, mEffect, mTags, idx, locals, failed, fatal, store,
                   reported, calls, badAt, band,
                   lifecycle>>

(***************************************************************************)
(* Spec: a fixture whose body queues up to MaxTags values and calls        *)
(* SetAndGetParameters. mParamLevel and mParamMute hold their member       *)
(* initialisers.                                                           *)
(***************************************************************************)
Init ==
    /\ InitCommon
    /\ test = "queue"
    /\ mParamLevel = 0
    /\ mParamMute = FALSE

Next ==
    \/ SetUpCreate
    \/ SetUpOpen
    \/ QueueLevel
    \/ QueueMute
    \/ QueueRun
    \/ LoopGetDescriptor
    \/ LoopSetParameter
    \/ LoopGetParameter
    \/ LoopEnd
    \/ TearDownClose
    \/ TearDownDestroy

Spec == Init /\ [][Next]_vars

(***************************************************************************)
(* SpecRun: the two tests of the suite, for every level of kLevelValues    *)
(* and both mutes.                                                         *)
(***************************************************************************)
InitRun ==
    /\ InitCommon
    /\ test \in {"SetAndGetLevel", "SetAndGetMute"}
    /\ mParamLevel \in kLevelValues
    /\ mParamMute \in Bools

NextRun ==
    \/ SetUpCreate
    \/ SetUpOpen
    \/ SetAndGetLevel
    \/ SetAndGetMute
    \/ LoopGetDescriptor
    \/ LoopSetParameter
    \/ LoopGetParameter
    \/ LoopEnd
    \/ TearDownClose
    \/ TearDownDestroy

SpecRun == InitRun /\ [][NextRun]_vars

(***************************************************************************)
(* SpecRange: the range predicates alone, on every tag, every level of the *)
(* band and Margin beyond it, and every maxLevel of the same range.        *)
(***************************************************************************)
Levels == (MIN_LEVEL_DB - Margin) .. (MAX_LEVEL_DB + Margin)

Volumes ==
    {LevelVolume(l) : l \in Levels} \cup {MuteVolume(m) : m \in Bools}
        \cup {VendorVolume}

InitRange ==
    /\ pc = "range"
    /\ test = "range"
    /\ mParamLevel = 0
    /\ mParamMute = FALSE
    /\ mEffect = "null"
    /\ \E vol \in Volumes : mTags = << <<vol.tag, vol>> >>
    /\ idx = 1
    /\ \E maxLevel \in Levels : desc = MakeDescriptor(maxLevel)
    /\ valid = FALSE
    /\ expected = NoStatus
    /\ expectParam = DefaultParameter
    /\ getParam = DefaultParameter
    /\ setStatus = NoStatus
    /\ getStatus = NoStatus
    /\ failed = {}
    /\ fatal = FALSE
    /\ store = ClosedStore
    /\ storeBefore = ClosedStore
    /\ reported = 0
    /\ calls = <<>>
    /\ badAt = 0
    /\ lifecycle = NoLifecycle
    /\ band = {}

\* isTagInRange on the pair and the descriptor
ApplyIsTagInRange ==
    /\ pc = "range"
    /\ valid' = isTagInRange(mTags[idx][1], mTags[idx][2], desc)
    /\ pc' = "tagged"
    /\ UNCHANGED <<fixture, mEffect, mTags, idx, desc, expected, expectParam,
                   getParam, setStatus, getStatus, failed, fatal, store,
                   storeBefore, reported, calls, badAt, band,
                   lifecycle>>

\* isLevelInRange on every level, for the descriptor's capability
ApplyIsLevelInRange ==
    /\ pc = "tagged"
    /\ band' = {l \in Levels : isLevelInRange(desc.capability, l)}
    /\ pc' = "banded"
    /\ UNCHANGED <<fixture, mEffect, mTags, idx, locals, failed, fatal, store,
                   reported, calls, badAt,
                   lifecycle>>

NextRange == ApplyIsTagInRange \/ ApplyIsLevelInRange

SpecRange == InitRange /\ [][NextRange]_vars

(***************************************************************************)
(* Properties.                                                             *)
(***************************************************************************)
IsValueCall(c) == c.op \in ValueOps
IsSetCall(c) == c.op = "setParameter"
IsGetCall(c) == c.op = "getParameter"

\* the calls of SetAndGetParameters, in order
ValueCalls == SelectSeq(calls, IsValueCall)
HasHeld == Len(ValueCalls) > 0
\* the latest of them: the locals are those of its iteration
Held == ValueCalls[Len(ValueCalls)]
HeldTag == mTags[Held.idx][1]
HeldVol == mTags[Held.idx][2]
\* the pair of that iteration is in range for the descriptor the effect
\* reported last
InRangeNow == isTagInRange(HeldTag, HeldVol, MakeDescriptor(reported))

AfterLoop == {"TearDown", "TearDownDestroy", "done"}
MinOf(a, b) == IF a <= b THEN a ELSE b

\* C1: isTagInRange agrees with the reference predicate: a levelDb value is in
\* range exactly when MIN_LEVEL_DB <= L <= MAX_LEVEL_DB and L <= cap.maxLevel
\* (so MIN_LEVEL_DB - 1 and MAX_LEVEL_DB + 1 never are), a mute value always
\* is, a value of any other tag never is.
C1_TagInRange ==
    pc \in {"tagged", "banded"} =>
        LET tag == mTags[idx][1]
            vol == mTags[idx][2]
            maxLevel == desc.capability.maxLevel
        IN /\ tag = "levelDb" =>
                (valid <=> /\ MIN_LEVEL_DB <= vol.levelDb
                           /\ vol.levelDb <= MAX_LEVEL_DB
                           /\ vol.levelDb <= maxLevel)
           /\ (tag = "levelDb"
                 /\ vol.levelDb \in {MIN_LEVEL_DB - 1, MAX_LEVEL_DB + 1})
                => ~valid
           /\ tag = "mute" => valid
           /\ tag \notin {"levelDb", "mute"} => ~valid

\* Level(MAX_LEVEL_DB) under cap.maxLevel = MAX_LEVEL_DB was found in range
C1_Witness ==
    /\ pc = "tagged"
    /\ mTags[idx][2] = LevelVolume(MAX_LEVEL_DB)
    /\ desc = MakeDescriptor(MAX_LEVEL_DB)
    /\ valid

\* C2: the status expected from setParameter is EX_NONE for a value in range
\* and EX_ILLEGAL_ARGUMENT otherwise, and the value's set check passes exactly
\* when the returned status is the expected one.
C2_SetCheck ==
    (HasHeld /\ Held.op = "setParameter") =>
        LET want == IF InRangeNow THEN EX_NONE ELSE EX_ILLEGAL_ARGUMENT
        IN /\ expected = want
           /\ (Held.idx \notin failed) <=> (setStatus = want)
           /\ (~InRangeNow /\ setStatus = EX_NONE) => Held.idx \in failed
           /\ (~InRangeNow /\ setStatus = EX_TRANSACTION_FAILED)
                => Held.idx \in failed
           /\ (InRangeNow /\ setStatus # EX_NONE) => Held.idx \in failed
           /\ (~InRangeNow /\ setStatus = EX_ILLEGAL_ARGUMENT)
                => Held.idx \notin failed

\* an out-of-range value rejected with EX_ILLEGAL_ARGUMENT, recorded as a pass
C2_Witness ==
    /\ HasHeld
    /\ Held.op = "setParameter"
    /\ ~InRangeNow
    /\ setStatus = EX_ILLEGAL_ARGUMENT
    /\ Held.idx \notin failed

C5_Original ==
    (pc \in AfterLoop /\ idx >= 1) =>
        \A i \in 1..Len(mTags) :
            \E k \in 1..Len(calls) : calls[k] = Call("setParameter", i)

\* C5 as amended: the values are set in insertion order, each once, and a
\* failed set check or round-trip check never ends the loop: it ends only
\* past the last value, or at a value whose getDescriptor did not return
\* EX_NONE; every value before that one has had its setParameter attempted.
C5_NoShortCircuit ==
    LET sets == SelectSeq(calls, IsSetCall)
    IN /\ \A k \in 1..Len(sets) : sets[k].idx = k
       /\ pc = "loop" => Len(sets) = idx - 1
       /\ (pc \in AfterLoop /\ idx >= 1) =>
             IF idx > Len(mTags)
             THEN Len(sets) = Len(mTags)
             ELSE /\ Len(sets) = idx - 1
                  /\ Held = Call("getDescriptor", idx)
                  /\ fatal

\* two or more values, the first one failed, and all of them set
C5_Witness ==
    /\ pc \in AfterLoop
    /\ Len(mTags) >= 2
    /\ 1 \in failed
    /\ Len(SelectSeq(calls, IsSetCall)) = Len(mTags)

\* C6 as stated: an out-of-range value recorded as passing was rejected with
\* EX_ILLEGAL_ARGUMENT and left the effect's stored value of its family as it
\* was.
C6_Original ==
    (HasHeld /\ Held.op = "setParameter" /\ ~InRangeNow
       /\ Held.idx \notin failed) =>
        /\ setStatus = EX_ILLEGAL_ARGUMENT
        /\ StoredParameter(store, HeldTag) = StoredParameter(storeBefore, HeldTag)

\* C6 as amended: an out-of-range value recorded as passing was rejected with
\* EX_ILLEGAL_ARGUMENT; no getParameter is issued for it, so the stored value
\* is not looked at.
C6_RejectionChecked ==
    (HasHeld /\ Held.op = "setParameter" /\ ~InRangeNow) =>
        /\ Held.idx \notin failed => setStatus = EX_ILLEGAL_ARGUMENT
        /\ pc # "get"
        /\ getStatus = NoStatus
        /\ \A k \in 1..Len(calls) : calls[k] # Call("getParameter", Held.idx)

\* an out-of-range value that passed although the effect stored it
C6_Witness ==
    /\ HasHeld
    /\ Held.op = "setParameter"
    /\ ~InRangeNow
    /\ Held.idx \notin failed
    /\ StoredParameter(store, HeldTag) # StoredParameter(storeBefore, HeldTag)

\* C7: each iteration calls getDescriptor exactly once, before its
\* setParameter, and computes valid and expected from the descriptor of that
\* call; the calls of one value are over before those of the next begin. In
\* the sequence of calls: a getDescriptor opens a value later in the queue
\* than every call before it, and every setParameter and getParameter belongs
\* to the value of the call right before it.
C7_FreshDescriptor ==
    LET vc == ValueCalls
    IN /\ \A k \in 1..Len(vc) :
             IF vc[k].op = "getDescriptor"
             THEN k > 1 => vc[k - 1].idx < vc[k].idx
             ELSE /\ k > 1
                  /\ vc[k - 1].idx = vc[k].idx
                  /\ vc[k].op = "setParameter"
                        => vc[k - 1].op = "getDescriptor"
                  /\ vc[k].op = "getParameter"
                        => vc[k - 1].op = "setParameter"
       /\ (Len(vc) > 0
             /\ (pc = "set" \/ vc[Len(vc)].op \in {"setParameter", "getParameter"}))
             => /\ desc = MakeDescriptor(reported)
                /\ valid = InRangeNow
                /\ expected = IF InRangeNow THEN EX_NONE
                                            ELSE EX_ILLEGAL_ARGUMENT

\* Level(MAX_LEVEL_DB) queued twice: accepted and read back under the first
\* descriptor, out of range under the second one
C7_Witness ==
    /\ pc = "set"
    /\ idx = 2
    /\ mTags[1][2] = LevelVolume(MAX_LEVEL_DB)
    /\ mTags[2][2] = LevelVolume(MAX_LEVEL_DB)
    /\ \E k \in 1..Len(calls) : calls[k] = Call("getParameter", 1)
    /\ ~valid

\* C8 as stated: a getParameter is issued only for a value in range whose
\* setParameter returned EX_NONE.
C8_GetOnlyAfterSetSuccess ==
    (HasHeld /\ (pc = "get" \/ Held.op = "getParameter")) =>
        /\ InRangeNow
        /\ setStatus = EX_NONE

\* C9: the levels in range for a capability are exactly
\* MIN_LEVEL_DB .. min(MAX_LEVEL_DB, cap.maxLevel): none above MAX_LEVEL_DB
\* whatever the capability, none at all when cap.maxLevel < MIN_LEVEL_DB.
C9_BandNarrowed ==
    pc = "banded" =>
        LET maxLevel == desc.capability.maxLevel
        IN /\ band = MIN_LEVEL_DB .. MinOf(MAX_LEVEL_DB, maxLevel)
           /\ maxLevel > MAX_LEVEL_DB =>
                 \A l \in Levels : l > MAX_LEVEL_DB => l \notin band
           /\ maxLevel < MIN_LEVEL_DB => band = {}

\* a capability above the global band: the band is the global one
C9_Witness ==
    /\ pc = "banded"
    /\ desc.capability.maxLevel > MAX_LEVEL_DB
    /\ band = MIN_LEVEL_DB .. MAX_LEVEL_DB

\* C10: getDescriptor, setParameter and getParameter are called only after
\* create and open both returned EX_NONE; destroy directly follows a close that
\* returned EX_NONE and is skipped when close failed; nothing but destroy
\* follows close; a body that ran is followed by close; a run queues one value,
\* the level or the mute of its instance, and so calls setParameter and
\* getParameter at most once each.
C10_Lifecycle ==
    /\ \A k \in 1..Len(calls) :
          calls[k].op \in ValueOps =>
             /\ k > 2
             /\ calls[1].op = "createEffect"
             /\ calls[2].op = "open"
             /\ lifecycle.createEffect = EX_NONE
             /\ lifecycle.open = EX_NONE
    /\ \A k \in 1..Len(calls) :
          calls[k].op = "destroyEffect" =>
             /\ k > 1
             /\ calls[k - 1].op = "close"
             /\ lifecycle.close = EX_NONE
    /\ \A j, k \in 1..Len(calls) :
          (calls[j].op = "close" /\ j < k) => calls[k].op = "destroyEffect"
    /\ lifecycle.close \notin {NoStatus, EX_NONE} =>
          /\ lifecycle.destroyEffect = NoStatus
          /\ pc = "done"
    /\ (pc = "done" /\ idx >= 1) =>
          /\ lifecycle.close # NoStatus
          /\ lifecycle.close = EX_NONE => lifecycle.destroyEffect # NoStatus
    /\ Len(mTags) <= 1
    /\ idx >= 1 =>
          mTags = IF test = "SetAndGetLevel"
                  THEN << <<"levelDb", LevelVolume(mParamLevel)>> >>
                  ELSE << <<"mute", MuteVolume(mParamMute)>> >>
    /\ Len(SelectSeq(calls, IsSetCall)) <= 1
    /\ Len(SelectSeq(calls, IsGetCall)) <= 1

\* a run that set and read back its value, then closed and destroyed the
\* effect
C10_Witness ==
    /\ pc = "done"
    /\ lifecycle.destroyEffect # NoStatus
    /\ Len(SelectSeq(calls, IsGetCall)) = 1

====
